---- MODULE Spec2Model ----
(***************************************************************************)
(* The TCP/IP network device of src/src/os/dev-net.c as a state machine.   *)
(*                                                                         *)
(* State: the request objects (REBREQ / struct devreq_net), the operating  *)
(* system's descriptor table with the accept backlog of each listening     *)
(* socket, and a record of the last handler invocation (what it returned,  *)
(* which events it signalled, which system calls it issued).               *)
(*                                                                         *)
(* Every handler of the dispatch table is a pure operator from the request *)
(* and the results of the system calls it issues to the new request, the   *)
(* DEVICE_CMD result and the signalled events; one action per dispatch     *)
(* table entry applies it and the system calls' effect on the descriptor   *)
(* table.  The build modelled is the POSIX one (TO_WINDOWS undefined).     *)
(***************************************************************************)
EXTENDS Integers, Sequences, FiniteSets, TLC

\* ------------------------------------------------------------------ bounds

\* Largest transfer length the runtime asks for.
MaxLen == 3
\* Size of the operating system's descriptor table (descriptors 1..MaxFd).
MaxFd == 3
\* Number of inbound peers that ever arrive (each may become a child request).
MaxPeers == 2
\* Single-call transfer cap.  reb-net.h sets it (32000 in the original);
\* scaled down so that lengths below and above the cap both occur.
MAX_TRANSFER == 2

\* Longest history of init and quit commands the device sees.
MaxCalls == 4
\* Largest byte value a buffer holds (bytes are 0..MaxByte).
MaxByte == 1

\* --------------------------------------------------------------- constants

RSM_OPEN == "RSM_OPEN"
RSM_BIND == "RSM_BIND"
RSM_LISTEN == "RSM_LISTEN"
RSM_ATTEMPT == "RSM_ATTEMPT"
RSM_CONNECT == "RSM_CONNECT"
RSM_SEND == "RSM_SEND"
RSM_RECEIVE == "RSM_RECEIVE"

RST_UDP == "RST_UDP"
RST_LISTEN == "RST_LISTEN"

RRF_OPEN == "RRF_OPEN"
RRF_ACTIVE == "RRF_ACTIVE"
RRF_DONE == "RRF_DONE"

DR_DONE == "DR_DONE"
DR_PEND == "DR_PEND"
DR_ERROR == "DR_ERROR"

RDC_OPEN == "RDC_OPEN"
RDC_CLOSE == "RDC_CLOSE"
RDC_READ == "RDC_READ"
RDC_WRITE == "RDC_WRITE"
RDC_CONNECT == "RDC_CONNECT"
RDC_MODIFY == "RDC_MODIFY"
RDC_CREATE == "RDC_CREATE"
RDC_LOOKUP == "RDC_LOOKUP"
RDC_INIT == "RDC_INIT"
RDC_QUIT == "RDC_QUIT"
RDC_POLL == "RDC_POLL"
RDC_QUERY == "RDC_QUERY"
RDC_DELETE == "RDC_DELETE"
RDC_RENAME == "RDC_RENAME"

RDF_INIT == "RDF_INIT"

EVT_CONNECT == "EVT_CONNECT"
EVT_WROTE == "EVT_WROTE"
EVT_READ == "EVT_READ"
EVT_CLOSE == "EVT_CLOSE"
EVT_ACCEPT == "EVT_ACCEPT"
EVT_LOOKUP == "EVT_LOOKUP"

\* Platform error codes (errno values of the POSIX build).
NE_WOULDBLOCK == 11
NE_INPROGRESS == 115
NE_ALREADY == 114
NE_ISCONN == 106
\* Any other errno: a genuine failure (ECONNREFUSED, EBADF, EMFILE, ...).
NE_OTHER == 111
\* socket() and accept() return this on failure.
BAD_SOCKET == -1
\* The fixed internal error of a contract violation.
ERR_MISUSE == -18

Min(a, b) == IF a < b THEN a ELSE b

Fds == 1..MaxFd
Peers == 1..MaxPeers
\* Request 1 is created by the runtime; the others are allocated by accept.
Reqs == 1..(1 + MaxPeers)

\* ------------------------------------------------------------------- state

VARIABLES
    req,        \* req[r]: the fields of request r
    alloc,      \* the requests that exist
    os,         \* os[fd]: the descriptor table
    arrivals,   \* number of inbound peers that have arrived so far
    last,       \* the last handler invocation
    dev,        \* the device (REBDEV) and the socket library's use count
    net,        \* the bytes of the runtime's buffers and in the connection
    heap        \* heap[r]: the DNS scratch block of request r

vars == <<req, alloc, os, arrivals, last, dev, net, heap>>

\* The device the runtime's requests belong to.
Dev_Net == "Dev_Net"

\* A request as OS_ALLOC_ZEROFILL leaves it; `device` is the null pointer
\* until someone assigns it.
ZeroReq ==
    [device |-> "NULL", modes |-> {}, state |-> {}, error |-> 0, socket |-> 0,
     command |-> RDC_OPEN, flags |-> {}, length |-> 0, actual |-> 0, data |-> 0,
     remote |-> 0, local |-> 0, host_info |-> FALSE, sock |-> <<>>]

ClosedFd == [open |-> FALSE, listen |-> FALSE, backlog |-> <<>>]

NoCall ==
    [req |-> 0, cmd |-> "none", res |-> 0, err |-> 0, ret |-> "none",
     evts |-> <<>>, sys |-> <<>>]

\* The device as the runtime registers it (DEFINE_DEV): not initialized, and
\* the socket library never started.  `windows` tells the build (TO_WINDOWS);
\* `calls` is the history of init and quit commands.
ZeroDev ==
    [windows |-> FALSE, flags |-> {}, startups |-> 0, cleanups |-> 0, calls |-> <<>>]

\* No buffer holds data and no byte is in flight.
NoNet == [wire |-> <<>>, mem |-> [r \in Reqs |-> <<>>], got |-> <<>>]

\* No request has a DNS scratch block.  A block is "none" before it is
\* allocated, then "allocated", "freed" once OS_FREE has released it, and
\* "freed again" when OS_FREE is handed the released block.
NoScratch == [r \in Reqs |-> "none"]

\* The heap after OS_FREE was handed the scratch block of request r.
OS_FREE(h, r) == [h EXCEPT ![r] = IF @ = "allocated" THEN "freed" ELSE "freed again"]

\* What a handler produces: the request, the DEVICE_CMD result, the events
\* signalled, the system calls issued (in order), the value the handler's
\* own system call returned (0 when none was issued) and the GET_ERROR
\* value the handler read (0 when it read none).
Out(q, ret, evts, sys, res, err) ==
    [q |-> q, ret |-> ret, evts |-> evts, sys |-> sys, res |-> res, err |-> err]

IsOpenFd(fd) == fd \in Fds /\ os[fd].open

\* The lowest free descriptor, or BAD_SOCKET when the table is full.
FreeFd ==
    IF \E fd \in Fds : ~os[fd].open
    THEN CHOOSE fd \in Fds : ~os[fd].open /\ \A g \in Fds : g < fd => os[g].open
    ELSE BAD_SOCKET

\* ---------------------------------------------------------------- helpers

\* Signal_Device: records that an event of the given type is raised for
\* request r, for the runtime's dispatcher.
Signal_Device(evts, r, type) == Append(evts, <<r, type>>)

\* Attach_Request: links a request at the tail of a request list, unless it
\* is already in the list.
Attach_Request(list, n) ==
    IF \E i \in 1..Len(list) : list[i] = n THEN list ELSE Append(list, n)

\* Get_Local_IP: copies what getsockname left in `sa` into the local
\* endpoint.  The call's result is not checked; `sa` is the value the
\* action draws (the socket's endpoint, or whatever the uninitialized
\* struct holds when the call failed).
Get_Local_IP(q, sa) == [q EXCEPT !.local = sa]

\* ------------------------------------------------------------- Open_Socket

\* o.fd: what socket() returns; o.opts: what Set_Sock_Options returns;
\* o.err: GET_ERROR after a failure.
Open_Socket(r, q, o) ==
    LET q0 == [q EXCEPT !.error = 0, !.state = {}] IN
    IF o.fd = BAD_SOCKET
    THEN Out([q0 EXCEPT !.error = o.err], DR_ERROR, <<>>, <<"socket">>, o.fd, o.err)
    ELSE LET q1 == [q0 EXCEPT !.socket = o.fd, !.state = @ \cup {RSM_OPEN}] IN
         IF ~o.opts
         THEN Out([q1 EXCEPT !.error = o.err], DR_ERROR, <<>>,
                  <<"socket", "fcntl">>, o.fd, o.err)
         ELSE Out(q1, DR_DONE, <<>>, <<"socket", "fcntl">>, o.fd, 0)

\* ------------------------------------------------------------ Close_Socket

\* The handle Close_Socket hands to CLOSE_SOCKET: the length field when a
\* DNS phase is active, the handle slot otherwise.
Close_Handle(q) == IF q.host_info THEN q.length ELSE q.socket

\* A Close_Socket without the RSM_OPEN test: it hands the handle to the OS
\* whatever the request's state.  C6 has to tell it from Close_Socket.
Close_Socket_Unguarded(r, q, o) ==
    LET q1 == [q EXCEPT !.error = 0, !.state = {}, !.socket = Close_Handle(q)]
        sys == IF q.host_info THEN <<"free", "close">> ELSE <<"close">>
    IN  IF ~o.close
        THEN Out([q1 EXCEPT !.error = o.err], DR_ERROR, <<>>, sys, -1, o.err)
        ELSE Out(q1, DR_DONE, <<>>, sys, 0, 0)

\* A Close_Socket that clears RSM_OPEN only instead of every state flag.
\* C8 has to tell it from Close_Socket.
Close_Socket_KeepFlags(r, q, o) ==
    LET q0 == [q EXCEPT !.error = 0] IN
    IF RSM_OPEN \in q0.state
    THEN LET q1 == [q0 EXCEPT !.state = @ \ {RSM_OPEN}, !.socket = Close_Handle(q0)]
             sys == IF q0.host_info THEN <<"free", "close">> ELSE <<"close">>
         IN  IF ~o.close
             THEN Out([q1 EXCEPT !.error = o.err], DR_ERROR, <<>>, sys, -1, o.err)
             ELSE Out(q1, DR_DONE, <<>>, sys, 0, 0)
    ELSE Out(q0, DR_DONE, <<>>, <<>>, 0, 0)

\* A Close_Socket that clears the state flags only once the OS has closed
\* the handle.  C23 has to tell it from Close_Socket.
Close_Socket_ClearLate(r, q, o) ==
    LET q0 == [q EXCEPT !.error = 0] IN
    IF RSM_OPEN \in q0.state
    THEN LET q1 == [q0 EXCEPT !.socket = Close_Handle(q0)]
             sys == IF q0.host_info THEN <<"free", "close">> ELSE <<"close">>
         IN  IF ~o.close
             THEN Out([q1 EXCEPT !.error = o.err], DR_ERROR, <<>>, sys, -1, o.err)
             ELSE Out([q1 EXCEPT !.state = {}], DR_DONE, <<>>, sys, 0, 0)
    ELSE Out(q0, DR_DONE, <<>>, <<>>, 0, 0)

\* o.close: TRUE when CLOSE_SOCKET succeeds (returns 0).
Close_Socket(r, q, o) ==
    LET q0 == [q EXCEPT !.error = 0] IN
    IF RSM_OPEN \in q0.state
    THEN LET q1 == [q0 EXCEPT !.state = {}, !.socket = Close_Handle(q0)]
             sys == IF q0.host_info THEN <<"free", "close">> ELSE <<"close">>
         IN  IF ~o.close
             THEN Out([q1 EXCEPT !.error = o.err], DR_ERROR, <<>>, sys, -1, o.err)
             ELSE Out(q1, DR_DONE, <<>>, sys, 0, 0)
    ELSE Out(q0, DR_DONE, <<>>, <<>>, 0, 0)

\* ----------------------------------------------------------- Lookup_Socket

\* A Lookup_Socket that signals the failure of the resolution as an event.
\* C25 has to tell it from Lookup_Socket.
Lookup_Socket_SignalsError(r, q, o) ==
    LET q0 == [q EXCEPT !.host_info = FALSE] IN
    IF o.host # 0
    THEN Out([q0 EXCEPT !.remote = o.host, !.flags = @ \ {RRF_DONE}], DR_DONE,
             Signal_Device(<<>>, r, EVT_LOOKUP), <<"gethostbyname">>, o.host, 0)
    ELSE Out([q0 EXCEPT !.error = o.err], DR_ERROR, Signal_Device(<<>>, r, "EVT_ERROR"),
             <<"gethostbyname">>, o.host, o.err)

\* o.host: the address gethostbyname resolved, 0 when it returned NULL.
Lookup_Socket(r, q, o) ==
    LET q0 == [q EXCEPT !.host_info = FALSE] IN
    IF o.host # 0
    THEN Out([q0 EXCEPT !.remote = o.host, !.flags = @ \ {RRF_DONE}], DR_DONE,
             Signal_Device(<<>>, r, EVT_LOOKUP), <<"gethostbyname">>, o.host, 0)
    ELSE Out([q0 EXCEPT !.error = o.err], DR_ERROR, <<>>, <<"gethostbyname">>,
             o.host, o.err)

\* ----------------------------------------------------------- Listen_Socket

\* A Listen_Socket that reports a listener that was set up as done, not as
\* pending.  C21 has to tell it from Listen_Socket.
Listen_Socket_Done(r, q, o) ==
    IF ~o.reuse
    THEN Out([q EXCEPT !.error = o.err], DR_ERROR, <<>>, <<"setsockopt">>, -1, o.err)
    ELSE IF ~o.bind
    THEN Out([q EXCEPT !.error = o.err], DR_ERROR, <<>>,
             <<"setsockopt", "bind">>, -1, o.err)
    ELSE LET q1 == [q EXCEPT !.state = @ \cup {RSM_BIND}] IN
         IF RST_UDP \notin q1.modes
         THEN IF ~o.listen
              THEN Out([q1 EXCEPT !.error = o.err], DR_ERROR, <<>>,
                       <<"setsockopt", "bind", "listen">>, -1, o.err)
              ELSE Out([Get_Local_IP([q1 EXCEPT !.state = @ \cup {RSM_LISTEN}], o.sa)
                           EXCEPT !.command = RDC_CREATE],
                       DR_DONE, <<>>,
                       <<"setsockopt", "bind", "listen", "getsockname">>, 0, 0)
         ELSE Out([Get_Local_IP(q1, o.sa) EXCEPT !.command = RDC_CREATE],
                  DR_DONE, <<>>, <<"setsockopt", "bind", "getsockname">>, 0, 0)

\* o.reuse, o.bind, o.listen: TRUE when the call succeeds; o.sa: what
\* getsockname leaves for Get_Local_IP.
\* The assert on an empty accept queue is compiled out (NDEBUG): the build
\* with assertions stops there, so its behaviours are among those modelled.
Listen_Socket(r, q, o) ==
    IF ~o.reuse
    THEN Out([q EXCEPT !.error = o.err], DR_ERROR, <<>>, <<"setsockopt">>, -1, o.err)
    ELSE IF ~o.bind
    THEN Out([q EXCEPT !.error = o.err], DR_ERROR, <<>>,
             <<"setsockopt", "bind">>, -1, o.err)
    ELSE LET q1 == [q EXCEPT !.state = @ \cup {RSM_BIND}] IN
         IF RST_UDP \notin q1.modes
         THEN IF ~o.listen
              THEN Out([q1 EXCEPT !.error = o.err], DR_ERROR, <<>>,
                       <<"setsockopt", "bind", "listen">>, -1, o.err)
              ELSE Out([Get_Local_IP([q1 EXCEPT !.state = @ \cup {RSM_LISTEN}], o.sa)
                           EXCEPT !.command = RDC_CREATE],
                       DR_PEND, <<>>,
                       <<"setsockopt", "bind", "listen", "getsockname">>, 0, 0)
         ELSE Out([Get_Local_IP(q1, o.sa) EXCEPT !.command = RDC_CREATE],
                  DR_PEND, <<>>, <<"setsockopt", "bind", "getsockname">>, 0, 0)

\* ---------------------------------------------------------- Connect_Socket

\* A switch without the NE_ALREADY case: the code falls to the default
\* branch.  C10 has to tell it from Transient.
Transient_NoAlready == {NE_WOULDBLOCK, NE_INPROGRESS}

\* A variant of the connect switch in which every error code is taken for
\* an attempt still in progress.  C11 has to tell it from Transient.
Transient_All == {NE_WOULDBLOCK, NE_INPROGRESS, NE_ALREADY, NE_OTHER}

\* The results of connect() for which the attempt is still in progress.
Transient == {NE_WOULDBLOCK, NE_INPROGRESS, NE_ALREADY}

\* A variant that leaves the mark of the attempt in place when the
\* connection is made.  C18 has to tell it from Connected.
Connected_KeepAttempt(r, q, o, sys, res, err) ==
    Out(Get_Local_IP([q EXCEPT !.state = @ \cup {RSM_CONNECT}], o.sa),
        DR_DONE, Signal_Device(<<>>, r, EVT_CONNECT), sys, res, err)

\* What Connect_Socket does once connect() reported success or NE_ISCONN,
\* and for UDP without any call.
Connected(r, q, o, sys, res, err) ==
    Out(Get_Local_IP([q EXCEPT !.state = (@ \ {RSM_ATTEMPT}) \cup {RSM_CONNECT}], o.sa),
        DR_DONE, Signal_Device(<<>>, r, EVT_CONNECT), sys, res, err)

\* A Connect_Socket without the UDP arm: a UDP request goes through
\* connect() as a TCP request does.  C19 has to tell it from Connect_Socket.
Connect_Socket_NoUdpArm(r, q, o) ==
    LET result == IF o.res # 0 THEN o.err ELSE 0 IN
    IF RST_LISTEN \in q.modes THEN Listen_Socket(r, q, o)
    ELSE IF RSM_CONNECT \in q.state THEN Out(q, DR_DONE, <<>>, <<>>, 0, 0)
    ELSE IF result \in {0, NE_ISCONN}
    THEN Connected(r, q, o, <<"connect", "getsockname">>, o.res, result)
    ELSE IF result \in Transient
    THEN Out([q EXCEPT !.state = @ \cup {RSM_ATTEMPT}], DR_PEND, <<>>,
             <<"connect">>, o.res, result)
    ELSE Out([q EXCEPT !.state = @ \ {RSM_ATTEMPT}, !.error = result], DR_ERROR,
             <<>>, <<"connect">>, o.res, result)

\* A variant without the early return for a request that is connected
\* already.  C32 has to tell it from Connect_Socket.
Connect_Socket_Reconnects(r, q, o) ==
    LET result == IF o.res # 0 THEN o.err ELSE 0 IN
    IF RST_LISTEN \in q.modes THEN Listen_Socket(r, q, o)
    ELSE IF RST_UDP \in q.modes THEN Connected(r, q, o, <<"getsockname">>, 0, 0)
    ELSE IF result \in {0, NE_ISCONN}
    THEN Connected(r, q, o, <<"connect", "getsockname">>, o.res, result)
    ELSE IF result \in Transient
    THEN Out([q EXCEPT !.state = @ \cup {RSM_ATTEMPT}], DR_PEND, <<>>,
             <<"connect">>, o.res, result)
    ELSE Out([q EXCEPT !.state = @ \ {RSM_ATTEMPT}, !.error = result], DR_ERROR,
             <<>>, <<"connect">>, o.res, result)

\* A variant with the signal of the error branch switched on.  C31 has to
\* tell it from Connect_Socket.
Connect_Socket_SignalsError(r, q, o) ==
    LET result == IF o.res # 0 THEN o.err ELSE 0 IN
    IF RST_LISTEN \in q.modes THEN Listen_Socket(r, q, o)
    ELSE IF RSM_CONNECT \in q.state THEN Out(q, DR_DONE, <<>>, <<>>, 0, 0)
    ELSE IF RST_UDP \in q.modes THEN Connected(r, q, o, <<"getsockname">>, 0, 0)
    ELSE IF result \in {0, NE_ISCONN}
    THEN Connected(r, q, o, <<"connect", "getsockname">>, o.res, result)
    ELSE IF result \in Transient
    THEN Out([q EXCEPT !.state = @ \cup {RSM_ATTEMPT}], DR_PEND, <<>>,
             <<"connect">>, o.res, result)
    ELSE Out([q EXCEPT !.state = @ \ {RSM_ATTEMPT}, !.error = result], DR_ERROR,
             Signal_Device(<<>>, r, "EVT_ERROR"), <<"connect">>, o.res, result)

\* o.res: what connect() returned (0 or -1); o.err: GET_ERROR after -1.
Connect_Socket(r, q, o) ==
    LET result == IF o.res # 0 THEN o.err ELSE 0 IN
    IF RST_LISTEN \in q.modes THEN Listen_Socket(r, q, o)
    ELSE IF RSM_CONNECT \in q.state THEN Out(q, DR_DONE, <<>>, <<>>, 0, 0)
    ELSE IF RST_UDP \in q.modes THEN Connected(r, q, o, <<"getsockname">>, 0, 0)
    ELSE IF result \in {0, NE_ISCONN}
    THEN Connected(r, q, o, <<"connect", "getsockname">>, o.res, result)
    ELSE IF result \in Transient
    THEN Out([q EXCEPT !.state = @ \cup {RSM_ATTEMPT}], DR_PEND, <<>>,
             <<"connect">>, o.res, result)
    ELSE Out([q EXCEPT !.state = @ \ {RSM_ATTEMPT}, !.error = result], DR_ERROR,
             <<>>, <<"connect">>, o.res, result)

\* --------------------------------------------------------- Transfer_Socket

Xfer_Mode(q) == IF q.command = RDC_READ THEN RSM_RECEIVE ELSE RSM_SEND

\* A transfer limit that forgets what was moved already.  C2 has to tell it
\* from Xfer_Len.
Xfer_Len_Whole(q) == Min(q.length, MAX_TRANSFER)

\* A transfer without the cap: the whole rest of the buffer is handed to
\* the OS.  C28 has to tell it from Xfer_Len.
Xfer_Len_Uncapped(q) == q.length - q.actual

\* Limit size of transfer.
Xfer_Len(q) == Min(q.length - q.actual, MAX_TRANSFER)

\* The tail of Transfer_Socket: a negative result of sendto or recvfrom.
Xfer_Failed(q, o, sys) ==
    IF o.err = NE_WOULDBLOCK
    THEN Out(q, DR_PEND, <<>>, sys, o.n, o.err)
    ELSE Out([q EXCEPT !.error = o.err], DR_ERROR, <<>>, sys, o.n, o.err)

\* A Send that completes only once `actual` exceeds the length.  C1 has to
\* tell it from Send.
Send_StrictDone(r, q, o) ==
    IF o.n >= 0
    THEN LET q1 == [q EXCEPT !.data = @ + o.n, !.actual = @ + o.n] IN
         IF q1.actual > q1.length
         THEN Out(q1, DR_DONE, Signal_Device(<<>>, r, EVT_WROTE), <<"sendto">>, o.n, 0)
         ELSE Out([q1 EXCEPT !.flags = @ \cup {RRF_ACTIVE}], DR_PEND, <<>>,
                  <<"sendto">>, o.n, 0)
    ELSE Xfer_Failed(q, o, <<"sendto">>)

\* A Send that advances `actual` but not the buffer cursor.  C12 has to
\* tell it from Send.
Send_KeepCursor(r, q, o) ==
    IF o.n >= 0
    THEN LET q1 == [q EXCEPT !.actual = @ + o.n] IN
         IF q1.actual >= q1.length
         THEN Out(q1, DR_DONE, Signal_Device(<<>>, r, EVT_WROTE), <<"sendto">>, o.n, 0)
         ELSE Out([q1 EXCEPT !.flags = @ \cup {RRF_ACTIVE}], DR_PEND, <<>>,
                  <<"sendto">>, o.n, 0)
    ELSE Xfer_Failed(q, o, <<"sendto">>)

\* o.n: what sendto returned (at most the length asked for, -1 on failure).
Send(r, q, o) ==
    IF o.n >= 0
    THEN LET q1 == [q EXCEPT !.data = @ + o.n, !.actual = @ + o.n] IN
         IF q1.actual >= q1.length
         THEN Out(q1, DR_DONE, Signal_Device(<<>>, r, EVT_WROTE), <<"sendto">>, o.n, 0)
         ELSE Out([q1 EXCEPT !.flags = @ \cup {RRF_ACTIVE}], DR_PEND, <<>>,
                  <<"sendto">>, o.n, 0)
    ELSE Xfer_Failed(q, o, <<"sendto">>)

\* A Receive that leaves RSM_CONNECT set when the peer has shut down.  C5
\* has to tell it from Receive.
Receive_KeepConnected(r, q, o) ==
    IF o.n > 0
    THEN LET q1 == IF RST_UDP \in q.modes THEN [q EXCEPT !.remote = o.from] ELSE q IN
         Out([q1 EXCEPT !.actual = o.n], DR_DONE,
             Signal_Device(<<>>, r, EVT_READ), <<"recvfrom">>, o.n, 0)
    ELSE IF o.n = 0
    THEN Out([q EXCEPT !.actual = 0], DR_DONE,
             Signal_Device(<<>>, r, EVT_CLOSE), <<"recvfrom">>, o.n, 0)
    ELSE Xfer_Failed(q, o, <<"recvfrom">>)

\* A Receive that leaves the remote endpoint alone.  C29 has to tell it
\* from Receive.
Receive_NoLatch(r, q, o) ==
    IF o.n > 0
    THEN Out([q EXCEPT !.actual = o.n], DR_DONE,
             Signal_Device(<<>>, r, EVT_READ), <<"recvfrom">>, o.n, 0)
    ELSE IF o.n = 0
    THEN Out([q EXCEPT !.actual = 0, !.state = @ \ {RSM_CONNECT}], DR_DONE,
             Signal_Device(<<>>, r, EVT_CLOSE), <<"recvfrom">>, o.n, 0)
    ELSE Xfer_Failed(q, o, <<"recvfrom">>)

\* o.n: what recvfrom returned; o.from: the sender it reported.
Receive(r, q, o) ==
    IF o.n > 0
    THEN LET q1 == IF RST_UDP \in q.modes THEN [q EXCEPT !.remote = o.from] ELSE q IN
         Out([q1 EXCEPT !.actual = o.n], DR_DONE,
             Signal_Device(<<>>, r, EVT_READ), <<"recvfrom">>, o.n, 0)
    ELSE IF o.n = 0
    THEN Out([q EXCEPT !.actual = 0, !.state = @ \ {RSM_CONNECT}], DR_DONE,
             Signal_Device(<<>>, r, EVT_CLOSE), <<"recvfrom">>, o.n, 0)
    ELSE Xfer_Failed(q, o, <<"recvfrom">>)

\* A Transfer_Socket that marks the direction before it checks that the
\* request can transfer.  C20 has to tell it from Transfer_Socket.
Transfer_Socket_MarkFirst(r, q, o) ==
    LET q1 == [q EXCEPT !.state = @ \cup {Xfer_Mode(q)}] IN
    IF RSM_CONNECT \notin q.state /\ RST_UDP \notin q.modes
    THEN Out([q1 EXCEPT !.error = ERR_MISUSE], DR_ERROR, <<>>, <<>>, 0, 0)
    ELSE IF Xfer_Mode(q) = RSM_SEND THEN Send(r, q1, o) ELSE Receive(r, q1, o)

Transfer_Socket(r, q, o) ==
    IF RSM_CONNECT \notin q.state /\ RST_UDP \notin q.modes
    THEN Out([q EXCEPT !.error = ERR_MISUSE], DR_ERROR, <<>>, <<>>, 0, 0)
    ELSE LET q1 == [q EXCEPT !.state = @ \cup {Xfer_Mode(q)}] IN
         IF Xfer_Mode(q) = RSM_SEND THEN Send(r, q1, o) ELSE Receive(r, q1, o)

\* ----------------------------------------------------------- Modify_Socket

\* The two operations the switch on sock->flags knows.
SET_UDP_MULTICAST == 3171
SET_UDP_TTL == 2365

\* A Modify_Socket whose TTL case lacks the test for UDP.  C27 has to tell
\* it from Modify_Socket.
Modify_Socket_TtlAnyTransport(r, q, o) ==
    IF o.op \notin {SET_UDP_MULTICAST, SET_UDP_TTL}
    THEN Out(q, "fail", <<>>, <<>>, 0, 0)
    ELSE IF o.op = SET_UDP_MULTICAST /\ RST_UDP \notin q.modes
    THEN Out([q EXCEPT !.error = ERR_MISUSE], DR_ERROR, <<>>, <<>>, 0, 0)
    ELSE IF o.res < 0
    THEN Out([q EXCEPT !.error = o.res], DR_ERROR, <<>>, <<"setsockopt">>, o.res, 0)
    ELSE Out(q, DR_DONE, <<>>, <<"setsockopt">>, o.res, 0)

\* o.op: the operation in sock->flags; o.res: what setsockopt returned
\* (multicast membership or TTL).  An operation the switch does not know
\* ends in `fail`: the handler does not return, the request stays as it is.
Modify_Socket(r, q, o) ==
    IF o.op \notin {SET_UDP_MULTICAST, SET_UDP_TTL}
    THEN Out(q, "fail", <<>>, <<>>, 0, 0)
    ELSE IF RST_UDP \notin q.modes
    THEN Out([q EXCEPT !.error = ERR_MISUSE], DR_ERROR, <<>>, <<>>, 0, 0)
    ELSE IF o.res < 0
    THEN Out([q EXCEPT !.error = o.res], DR_ERROR, <<>>, <<"setsockopt">>, o.res, 0)
    ELSE Out(q, DR_DONE, <<>>, <<"setsockopt">>, o.res, 0)

\* ----------------------------------------------------------- Accept_Socket

\* The request Accept_Socket would allocate if it copied the listener into
\* it (`*news = *sock`) before filling it in.  C22 has to tell it from News.
News_Copied(q, o) ==
    Get_Local_IP([q EXCEPT !.flags = @ \cup {RRF_OPEN},
                           !.state = @ \cup {RSM_OPEN, RSM_CONNECT},
                           !.socket = o.fd,
                           !.remote = o.peer], o.sa)

\* The request Accept_Socket allocates for an accepted connection.
News(q, o) ==
    Get_Local_IP([ZeroReq EXCEPT !.device = q.device,
                                 !.flags = @ \cup {RRF_OPEN},
                                 !.state = @ \cup {RSM_OPEN, RSM_CONNECT},
                                 !.socket = o.fd,
                                 !.remote = o.peer], o.sa)

\* An Accept_Socket that returns DR_DONE once it has accepted a connection.
\* C3 has to tell it from Accept_Socket.
Accept_Socket_Done(r, q, o, n) ==
    IF o.fd = BAD_SOCKET
    THEN IF o.err = NE_WOULDBLOCK
         THEN Out(q, DR_PEND, <<>>, <<"accept">>, o.fd, o.err) @@ [news |-> <<>>]
         ELSE Out([q EXCEPT !.error = o.err], DR_ERROR, <<>>, <<"accept">>, o.fd, o.err)
                  @@ [news |-> <<>>]
    ELSE IF ~o.opts
    THEN Out([q EXCEPT !.error = o.err], DR_ERROR, <<>>, <<"accept", "fcntl">>,
             o.fd, o.err) @@ [news |-> <<>>]
    ELSE Out([q EXCEPT !.sock = Attach_Request(@, n)], DR_DONE,
             Signal_Device(<<>>, r, EVT_ACCEPT),
             <<"accept", "fcntl", "getsockname">>, o.fd, 0)
             @@ [news |-> <<News(q, o)>>]

\* An Accept_Socket that links the new request at the head of the queue.
\* C4 has to tell it from Accept_Socket.
Accept_Socket_Lifo(r, q, o, n) ==
    IF o.fd = BAD_SOCKET
    THEN IF o.err = NE_WOULDBLOCK
         THEN Out(q, DR_PEND, <<>>, <<"accept">>, o.fd, o.err) @@ [news |-> <<>>]
         ELSE Out([q EXCEPT !.error = o.err], DR_ERROR, <<>>, <<"accept">>, o.fd, o.err)
                  @@ [news |-> <<>>]
    ELSE IF ~o.opts
    THEN Out([q EXCEPT !.error = o.err], DR_ERROR, <<>>, <<"accept", "fcntl">>,
             o.fd, o.err) @@ [news |-> <<>>]
    ELSE Out([q EXCEPT !.sock = <<n>> \o @], DR_PEND,
             Signal_Device(<<>>, r, EVT_ACCEPT),
             <<"accept", "fcntl", "getsockname">>, o.fd, 0)
             @@ [news |-> <<News(q, o)>>]

\* o.fd: what accept() returned; o.peer: the peer address it reported;
\* o.opts: what Set_Sock_Options returned for the new socket; n: the
\* request identity OS_ALLOC_ZEROFILL hands out.  The result's `news` is
\* the allocated request, if any.
Accept_Socket(r, q, o, n) ==
    IF o.fd = BAD_SOCKET
    THEN IF o.err = NE_WOULDBLOCK
         THEN Out(q, DR_PEND, <<>>, <<"accept">>, o.fd, o.err) @@ [news |-> <<>>]
         ELSE Out([q EXCEPT !.error = o.err], DR_ERROR, <<>>, <<"accept">>, o.fd, o.err)
                  @@ [news |-> <<>>]
    ELSE IF ~o.opts
    THEN Out([q EXCEPT !.error = o.err], DR_ERROR, <<>>, <<"accept", "fcntl">>,
             o.fd, o.err) @@ [news |-> <<>>]
    ELSE Out([q EXCEPT !.sock = Attach_Request(@, n)], DR_PEND,
             Signal_Device(<<>>, r, EVT_ACCEPT),
             <<"accept", "fcntl", "getsockname">>, o.fd, 0)
             @@ [news |-> <<News(q, o)>>]

\* ------------------------------------------------------ the device's driver

RRF_PENDING == "RRF_PENDING"

Pending(r) == RRF_PENDING \in req[r].flags

\* The runtime never invokes a second operation on a request while one is
\* outstanding: a pending request is only polled, with the command it
\* holds, or closed.
Invocable(r, cmd) ==
    /\ r \in alloc
    /\ Pending(r) => cmd \in {req[r].command, RDC_CLOSE}

\* The runtime stores the command in the request before it dispatches.
WithCommand(q, cmd) == [q EXCEPT !.command = cmd]

\* The runtime sets up a transfer it starts: the buffer, its length, nothing
\* moved yet.
Setup_Transfer(q, len) == [q EXCEPT !.length = len, !.actual = 0, !.data = 0]

\* A request stays on the device's pending list exactly while its handler
\* returns DR_PEND.
Pend(q, ret) ==
    [q EXCEPT !.flags = IF ret = DR_PEND THEN @ \cup {RRF_PENDING} ELSE @ \ {RRF_PENDING}]

\* What getsockname leaves in the address Get_Local_IP reads: the socket's
\* endpoint, or whatever the uninitialized struct holds when the call fails.
SockNames(fd) == IF IsOpenFd(fd) THEN {1} ELSE {0, 1}

Called(out, call) == \E i \in 1..Len(out.sys) : out.sys[i] = call

Invocation(r, cmd, out) ==
    [req |-> r, cmd |-> cmd, res |-> out.res, err |-> out.err, ret |-> out.ret,
     evts |-> out.evts, sys |-> out.sys]

\* A variant in which the error slot is the device's, not the request's:
\* what a handler leaves in it shows in every request.  C17 has to tell it
\* from Returned.
Returned_Shared(r, cmd, out) ==
    /\ req' = [b \in Reqs |-> IF b = r THEN Pend(out.q, out.ret)
                              ELSE [req[b] EXCEPT !.error = out.q.error]]
    /\ last' = Invocation(r, cmd, out)

\* The request and the record of the invocation after a handler returned.
Returned(r, cmd, out) ==
    /\ req' = [req EXCEPT ![r] = Pend(out.q, out.ret)]
    /\ last' = Invocation(r, cmd, out)

\* The same, the record of the invocation carrying what else the call took
\* or reported.
ReturnedWith(r, cmd, out, more) ==
    /\ req' = [req EXCEPT ![r] = Pend(out.q, out.ret)]
    /\ last' = Invocation(r, cmd, out) @@ more

\* socket() returns the lowest free descriptor, or fails.
DoOpen(r) ==
    /\ Invocable(r, RDC_OPEN)
    /\ \E fd \in {FreeFd, BAD_SOCKET} : \E opts \in BOOLEAN :
        LET o == [fd |-> fd, opts |-> opts, err |-> NE_OTHER]
            out == Open_Socket(r, WithCommand(req[r], RDC_OPEN), o)
        IN  /\ (fd = BAD_SOCKET => opts)
            /\ Returned(r, RDC_OPEN, out)
            /\ os' = IF fd = BAD_SOCKET THEN os
                     ELSE [os EXCEPT ![fd] = [ClosedFd EXCEPT !.open = TRUE]]
            /\ UNCHANGED <<alloc, arrivals, dev, net, heap>>

\* close() succeeds only on an open descriptor, which it releases.
DoClose(r) ==
    /\ Invocable(r, RDC_CLOSE)
    /\ \E ok \in BOOLEAN :
        LET q == WithCommand(req[r], RDC_CLOSE)
            o == [close |-> ok, err |-> NE_OTHER]
            out == Close_Socket(r, q, o)
            fd == Close_Handle(q)
        IN  /\ (ok /\ Called(out, "close") => IsOpenFd(fd))
            /\ (~Called(out, "close") => ok)
            /\ Returned(r, RDC_CLOSE, out)
            /\ os' = IF Called(out, "close") /\ ok THEN [os EXCEPT ![fd] = ClosedFd] ELSE os
            /\ heap' = IF Called(out, "free") THEN OS_FREE(heap, r) ELSE heap
            /\ UNCHANGED <<alloc, arrivals, dev, net>>

\* gethostbyname resolves the name to its address (1), or fails.
DoLookup(r) ==
    /\ Invocable(r, RDC_LOOKUP)
    /\ \E host \in {0, 1} :
        LET o == [host |-> host, err |-> NE_OTHER]
            out == Lookup_Socket(r, WithCommand(req[r], RDC_LOOKUP), o)
        IN  /\ Returned(r, RDC_LOOKUP, out)
            /\ UNCHANGED <<os, alloc, arrivals, dev, net, heap>>

\* The results the system calls of Connect_Socket and Listen_Socket can
\* have: every call on a descriptor that is not open fails.
ConnectOutcomes(q) ==
    IF RST_LISTEN \in q.modes
    THEN {[res |-> 0, reuse |-> a, bind |-> b, listen |-> c, sa |-> sa, err |-> NE_OTHER] :
            a \in {x \in BOOLEAN : x => IsOpenFd(q.socket)},
            b \in {x \in BOOLEAN : x => IsOpenFd(q.socket)},
            c \in {x \in BOOLEAN : x => IsOpenFd(q.socket)},
            sa \in SockNames(q.socket)}
    ELSE {[res |-> IF e = 0 THEN 0 ELSE -1, reuse |-> TRUE, bind |-> TRUE,
           listen |-> TRUE, sa |-> sa, err |-> e] :
            e \in IF IsOpenFd(q.socket)
                  THEN {0, NE_ISCONN, NE_WOULDBLOCK, NE_INPROGRESS, NE_ALREADY, NE_OTHER}
                  ELSE {NE_OTHER},
            sa \in SockNames(q.socket)}

DoConnect(r) ==
    /\ Invocable(r, RDC_CONNECT)
    /\ LET q == WithCommand(req[r], RDC_CONNECT) IN
       \E o \in ConnectOutcomes(q) :
        LET out == Connect_Socket(r, q, o) IN
            /\ Returned(r, RDC_CONNECT, out)
            /\ os' = IF Called(out, "listen") /\ out.ret = DR_PEND
                     THEN [os EXCEPT ![q.socket].listen = TRUE]
                     ELSE os
            /\ UNCHANGED <<alloc, arrivals, dev, net, heap>>

\* sendto and recvfrom move at most the length asked for, or fail.
XferOutcomes(q) ==
    LET len == Xfer_Len(q)
        senders == IF q.command = RDC_READ /\ RST_UDP \in q.modes THEN Peers ELSE {0}
    IN  IF IsOpenFd(q.socket)
        THEN {[n |-> n, from |-> IF n > 0 THEN f ELSE 0, err |-> 0] :
                n \in 0..len, f \in senders}
             \cup {[n |-> -1, from |-> 0, err |-> e] : e \in {NE_WOULDBLOCK, NE_OTHER}}
        ELSE {[n |-> -1, from |-> 0, err |-> NE_OTHER]}

\* A transfer the runtime starts is set up with its length; a pending one is
\* invoked again as it stands.  The record of the invocation carries the
\* sender recvfrom reported.
DoTransfer(r, cmd, len) ==
    /\ Invocable(r, cmd)
    /\ Pending(r) => len = req[r].length
    /\ LET q == IF Pending(r) THEN req[r]
                ELSE Setup_Transfer(WithCommand(req[r], cmd), len)
       IN  \E o \in XferOutcomes(q) :
            /\ ReturnedWith(r, cmd, Transfer_Socket(r, q, o), [from |-> o.from])
            /\ UNCHANGED <<os, alloc, arrivals, dev, net, heap>>

\* The operations the runtime may ask for: the two the switch knows and
\* one it does not.
ModifyOps == {SET_UDP_MULTICAST, SET_UDP_TTL, 0}

\* setsockopt succeeds (0) or fails (-1, the reason in errno); on a
\* descriptor that is not open it fails.  The record of the invocation
\* carries the operation and the errno the call left.
DoModify(r, op) ==
    /\ Invocable(r, RDC_MODIFY)
    /\ LET q == WithCommand(req[r], RDC_MODIFY) IN
       \E res \in IF IsOpenFd(q.socket) THEN {0, -1} ELSE {-1} :
        /\ ReturnedWith(r, RDC_MODIFY, Modify_Socket(r, q, [op |-> op, res |-> res]),
                        [op |-> op,
                         errno |-> IF /\ res < 0
                                      /\ Called(Modify_Socket(r, q, [op |-> op, res |-> res]),
                                                "setsockopt")
                                   THEN NE_OTHER ELSE 0])
        /\ UNCHANGED <<os, alloc, arrivals, dev, net, heap>>

\* accept() takes the oldest connection of the backlog into the lowest free
\* descriptor; it would block on an empty backlog and fails on a socket that
\* is not listening or when the descriptor table is full.
AcceptOutcomes(q) ==
    LET fd == q.socket IN
    IF IsOpenFd(fd) /\ os[fd].listen
    THEN IF os[fd].backlog = <<>>
         THEN {[fd |-> BAD_SOCKET, peer |-> 0, opts |-> TRUE, sa |-> 0, err |-> NE_WOULDBLOCK]}
         ELSE IF FreeFd = BAD_SOCKET
         THEN {[fd |-> BAD_SOCKET, peer |-> 0, opts |-> TRUE, sa |-> 0, err |-> NE_OTHER]}
         ELSE {[fd |-> FreeFd, peer |-> Head(os[fd].backlog), opts |-> opts, sa |-> 1,
                err |-> NE_OTHER] : opts \in BOOLEAN}
    ELSE {[fd |-> BAD_SOCKET, peer |-> 0, opts |-> TRUE, sa |-> 0, err |-> NE_OTHER]}

\* The request identity the allocator hands out next.
NewReq == CHOOSE x \in Reqs \ alloc : \A y \in Reqs \ alloc : x <= y

DoAccept(r) ==
    /\ Invocable(r, RDC_CREATE)
    /\ LET q == WithCommand(req[r], RDC_CREATE) IN
       \E o \in AcceptOutcomes(q) :
        LET out == Accept_Socket(r, q, o, NewReq) IN
        /\ last' = Invocation(r, RDC_CREATE, out)
        /\ IF out.news = <<>>
           THEN /\ req' = [req EXCEPT ![r] = Pend(out.q, out.ret)]
                /\ alloc' = alloc
           ELSE /\ req' = [req EXCEPT ![r] = Pend(out.q, out.ret), ![NewReq] = out.news[1]]
                /\ alloc' = alloc \cup {NewReq}
        /\ os' = IF o.fd = BAD_SOCKET THEN os
                 ELSE [os EXCEPT ![q.socket].backlog = Tail(@),
                                 ![o.fd] = [ClosedFd EXCEPT !.open = TRUE]]
        /\ UNCHANGED <<arrivals, dev, net, heap>>

\* The runtime takes the oldest accepted request off a listener's queue.
Drain(r) ==
    /\ r \in alloc
    /\ req[r].sock # <<>>
    /\ req' = [req EXCEPT ![r].sock = Tail(@)]
    /\ last' = NoCall
    /\ UNCHANGED <<os, alloc, arrivals, dev, net, heap>>

\* A peer connects to a listening socket: the connection joins its backlog.
Arrive(fd) ==
    /\ os[fd].open /\ os[fd].listen
    /\ arrivals < MaxPeers
    /\ arrivals' = arrivals + 1
    /\ os' = [os EXCEPT ![fd].backlog = Append(@, arrivals + 1)]
    /\ last' = NoCall
    /\ UNCHANGED <<req, alloc, dev, net, heap>>

\* One request, as the runtime made it: its modes set, nothing opened.
InitRequests ==
    /\ \E m \in SUBSET {RST_UDP, RST_LISTEN} :
          req = [r \in Reqs |-> IF r = 1 THEN [ZeroReq EXCEPT !.device = Dev_Net, !.modes = m]
                                 ELSE ZeroReq]
    /\ alloc = {1}
    /\ os = [fd \in Fds |-> ClosedFd]
    /\ arrivals = 0
    /\ last = NoCall

Init ==
    /\ InitRequests
    /\ dev = ZeroDev
    /\ net = NoNet
    /\ heap = NoScratch

\* The runtime drives request 1 through every handler of the dispatch
\* table (its transfers carry no data), peers arrive, and the runtime takes
\* accepted requests off the listener's queue.
Next ==
    \/ DoOpen(1)
    \/ DoClose(1)
    \/ DoLookup(1)
    \/ DoConnect(1)
    \/ \E cmd \in {RDC_READ, RDC_WRITE} : DoTransfer(1, cmd, 0)
    \/ DoModify(1, SET_UDP_TTL)
    \/ DoAccept(1)
    \/ Drain(1)
    \/ \E fd \in Fds : Arrive(fd)

Spec == Init /\ [][Next]_vars

\* The runtime opens, connects and closes request 1 and moves buffers of
\* every length up to MaxLen through it.
NextXfer ==
    \/ DoOpen(1)
    \/ DoClose(1)
    \/ DoConnect(1)
    \/ \E cmd \in {RDC_READ, RDC_WRITE} : \E len \in 0..MaxLen : DoTransfer(1, cmd, len)

SpecXfer == Init /\ [][NextXfer]_vars

\* ------------------------------------------------- a listener and its children

\* Request 1 is a TCP listener.
InitServer == Init /\ req[1].modes = {RST_LISTEN}

\* The runtime opens the listener and makes it listen and accept;
\* interleaved with that, it reads from and closes the requests that accept
\* created.
NextServer ==
    \/ DoOpen(1)
    \/ DoConnect(1)
    \/ DoAccept(1)
    \/ \E fd \in Fds : Arrive(fd)
    \/ \E r \in Reqs \ {1} : DoTransfer(r, RDC_READ, 0)
    \/ \E r \in Reqs \ {1} : DoClose(r)

SpecServer == InitServer /\ [][NextServer]_vars

\* ------------------------------------------------------ setting up a listener

\* Request 1 is a listener, TCP or UDP.
InitListen == Init /\ RST_LISTEN \in req[1].modes

\* The runtime opens the listener, sets it up through connect, accepts on
\* it and closes it; peers arrive.
NextListen ==
    \/ DoOpen(1)
    \/ DoConnect(1)
    \/ DoAccept(1)
    \/ DoClose(1)
    \/ \E fd \in Fds : Arrive(fd)

SpecListen == InitListen /\ [][NextListen]_vars

\* ------------------------------------------------------------ the DNS phase

\* The handle of a DNS request: no socket descriptor.
DnsHandle == MaxFd + 1

\* A DNS phase begins on an open request: the scratch block is allocated,
\* the socket moves to the length field and the handle slot takes the DNS
\* handle.  A request enters the phase at most once.
BeginDns(r) ==
    /\ r \in alloc /\ ~Pending(r)
    /\ RSM_OPEN \in req[r].state
    /\ ~req[r].host_info /\ heap[r] = "none"
    /\ req' = [req EXCEPT ![r].host_info = TRUE,
                          ![r].length = req[r].socket,
                          ![r].socket = DnsHandle]
    /\ heap' = [heap EXCEPT ![r] = "allocated"]
    /\ last' = NoCall
    /\ UNCHANGED <<os, alloc, arrivals, dev, net>>

\* The runtime opens and closes request 1 and looks names up through it; a
\* DNS phase may begin while it is open.
NextDns ==
    \/ DoOpen(1)
    \/ BeginDns(1)
    \/ DoLookup(1)
    \/ DoClose(1)

SpecDns == Init /\ [][NextDns]_vars

\* ------------------------------------------------------------ receiving

\* Request 1 is not a listener.
InitRecv == Init /\ RST_LISTEN \notin req[1].modes

\* The runtime resolves the remote endpoint of request 1, TCP or UDP, opens,
\* connects and closes it, and reads into buffers of every length up to
\* MaxLen.
NextRecv ==
    \/ DoLookup(1)
    \/ DoOpen(1)
    \/ DoConnect(1)
    \/ \E len \in 0..MaxLen : DoTransfer(1, RDC_READ, len)
    \/ DoClose(1)

SpecRecv == InitRecv /\ [][NextRecv]_vars

\* ------------------------------------------------- every handler that signals

\* The runtime looks a host up, opens request 1 (a client or a listener, TCP
\* or UDP), connects it, transfers buffers of one byte and accepts; peers
\* arrive.
NextEvents ==
    \/ DoLookup(1)
    \/ DoOpen(1)
    \/ DoConnect(1)
    \/ \E cmd \in {RDC_READ, RDC_WRITE} : DoTransfer(1, cmd, 1)
    \/ DoAccept(1)
    \/ \E fd \in Fds : Arrive(fd)

SpecEvents == Init /\ [][NextEvents]_vars

\* ------------------------------------------------------- connecting again

\* The runtime opens request 1 (a client or a listener, TCP or UDP),
\* connects it any number of times, reads one byte and closes.
NextConnect ==
    \/ DoOpen(1)
    \/ DoConnect(1)
    \/ DoTransfer(1, RDC_READ, 1)
    \/ DoClose(1)

SpecConnect == Init /\ [][NextConnect]_vars

\* ------------------------------------------------------ modifying a socket

\* The runtime opens and closes request 1, TCP or UDP, and modifies it.
NextModify ==
    \/ DoOpen(1)
    \/ \E op \in ModifyOps : DoModify(1, op)
    \/ DoClose(1)

SpecModify == Init /\ [][NextModify]_vars

\* --------------------------------------------------------------- the device

\* The commands in RDC_ enum order, as the dispatch table's comments give it.
RDC_Order ==
    <<RDC_INIT, RDC_QUIT, RDC_OPEN, RDC_CLOSE, RDC_READ, RDC_WRITE, RDC_POLL,
      RDC_CONNECT, RDC_QUERY, RDC_MODIFY, RDC_CREATE, RDC_DELETE, RDC_RENAME,
      RDC_LOOKUP>>

\* A dispatch table with the connect handler one slot early, in the poll
\* slot.  C14 has to tell it from Dev_Cmds.
Dev_Cmds_Shifted ==
    <<"Init_Net", "Quit_Net", "Open_Socket", "Close_Socket", "Transfer_Socket",
      "Transfer_Socket", "Connect_Socket", "0", "0", "Modify_Socket",
      "Accept_Socket", "0", "0", "Lookup_Socket">>

\* Command Dispatch Table (RDC_ enum order); "0" is an empty slot.
Dev_Cmds ==
    <<"Init_Net", "Quit_Net", "Open_Socket", "Close_Socket", "Transfer_Socket",
      "Transfer_Socket", "0", "Connect_Socket", "0", "Modify_Socket",
      "Accept_Socket", "0", "0", "Lookup_Socket">>

\* The table's entry for a command.
Handler(cmd) ==
    Dev_Cmds[CHOOSE i \in 1..Len(RDC_Order) : RDC_Order[i] = cmd]

\* What the runtime's dispatcher reports for a command without a handler.
NOT_IMPLEMENTED == "not implemented"

\* o.startup: TRUE when WSAStartup succeeds.  d is the device the command's
\* argument really is.
Init_Net(d, o) ==
    IF d.windows /\ ~o.startup
    THEN [dev |-> d, ret |-> DR_ERROR]
    ELSE [dev |-> [d EXCEPT !.flags = @ \cup {RDF_INIT},
                            !.startups = IF d.windows THEN @ + 1 ELSE @],
          ret |-> DR_DONE]

Quit_Net(d) ==
    [dev |-> [d EXCEPT !.flags = @ \ {RDF_INIT},
                       !.cleanups = IF d.windows /\ RDF_INIT \in d.flags THEN @ + 1 ELSE @],
     ret |-> DR_DONE]

\* The record of a command that went to the device itself.
DeviceCall(cmd, ret, sys) ==
    [req |-> 0, cmd |-> cmd, res |-> 0, err |-> 0, ret |-> ret, evts |-> <<>>,
     sys |-> sys]

DoInit ==
    /\ Handler(RDC_INIT) = "Init_Net"
    /\ Len(dev.calls) < MaxCalls
    /\ \E ok \in BOOLEAN :
        LET out == Init_Net(dev, [startup |-> ok]) IN
        /\ (~dev.windows => ok)
        /\ dev' = [out.dev EXCEPT !.calls = Append(@, RDC_INIT)]
        /\ last' = DeviceCall(RDC_INIT, out.ret,
                              IF dev.windows THEN <<"WSAStartup">> ELSE <<>>)
        /\ UNCHANGED <<req, alloc, os, arrivals, net, heap>>

DoQuit ==
    /\ Handler(RDC_QUIT) = "Quit_Net"
    /\ Len(dev.calls) < MaxCalls
    /\ LET out == Quit_Net(dev) IN
        /\ dev' = [out.dev EXCEPT !.calls = Append(@, RDC_QUIT)]
        /\ last' = DeviceCall(RDC_QUIT, out.ret,
                              IF out.dev.cleanups # dev.cleanups
                              THEN <<"WSACleanup">> ELSE <<>>)
        /\ UNCHANGED <<req, alloc, os, arrivals, net, heap>>

\* A command whose slot in the table is empty: the dispatcher reports that
\* it is not implemented; no handler runs and the request stays as it is.
DoReserved(r, cmd) ==
    /\ r \in alloc
    /\ Handler(cmd) = "0"
    /\ last' = [req |-> r, cmd |-> cmd, res |-> 0, err |-> 0, ret |-> NOT_IMPLEMENTED,
                evts |-> <<>>, sys |-> <<>>]
    /\ UNCHANGED <<req, alloc, os, arrivals, dev, net, heap>>

\* Either build of the device, not initialized.
InitDev ==
    /\ InitRequests
    /\ \E w \in BOOLEAN : dev = [ZeroDev EXCEPT !.windows = w]
    /\ net = NoNet
    /\ heap = NoScratch

\* The runtime initializes and quits the device, opens and closes request
\* 1, and may send any command of the enumeration.
NextDev ==
    \/ DoInit
    \/ DoQuit
    \/ \E cmd \in {RDC_POLL, RDC_QUERY, RDC_DELETE, RDC_RENAME} : DoReserved(1, cmd)
    \/ DoOpen(1)
    \/ DoClose(1)

SpecDev == InitDev /\ [][NextDev]_vars

\* --------------------------------------------- connecting where none listens

\* The result record of a connect() that fails with error code e.
ConnectError(e) ==
    [res |-> -1, err |-> e, sa |-> 0, reuse |-> TRUE, bind |-> TRUE, listen |-> TRUE]

\* connect() on a TCP request towards an address where nothing listens,
\* while the OS has not resolved the attempt: it is in progress.
ConnectUnresolved(r) ==
    /\ Invocable(r, RDC_CONNECT)
    /\ req[r].modes = {}
    /\ IsOpenFd(req[r].socket)
    /\ \E e \in {NE_WOULDBLOCK, NE_INPROGRESS, NE_ALREADY} :
        /\ Returned(r, RDC_CONNECT,
                    Connect_Socket(r, WithCommand(req[r], RDC_CONNECT), ConnectError(e)))
        /\ UNCHANGED <<os, alloc, arrivals, dev, net, heap>>

\* The same once the OS has resolved the attempt: connect() fails with a
\* connection-refused-class error.
ConnectRefused(r) ==
    /\ Invocable(r, RDC_CONNECT)
    /\ req[r].modes = {}
    /\ Returned(r, RDC_CONNECT,
                Connect_Socket(r, WithCommand(req[r], RDC_CONNECT), ConnectError(NE_OTHER)))
    /\ UNCHANGED <<os, alloc, arrivals, dev, net, heap>>

InitTcp == Init /\ req[1].modes = {}

\* A TCP request whose every connect goes to an address with no listener.
NextRefused ==
    \/ DoOpen(1)
    \/ DoClose(1)
    \/ ConnectUnresolved(1)
    \/ ConnectRefused(1)
    \/ \E cmd \in {RDC_READ, RDC_WRITE} : \E len \in 0..MaxLen : DoTransfer(1, cmd, len)

\* The runtime invokes connect again and again and the OS eventually
\* resolves the attempt.
SpecRefused == InitTcp /\ [][NextRefused]_vars /\ WF_vars(ConnectRefused(1))

\* ------------------------------------------------- a connected pair's bytes

Bytes == 0..MaxByte

\* The buffers the runtime hands to a send.
Messages == UNION {[1..n -> Bytes] : n \in 0..MaxLen}

\* Request 1 as Open_Socket and Connect_Socket leave a TCP request whose
\* connect() succeeded on descriptor 1.
Sender ==
    LET opened == Open_Socket(1, WithCommand([ZeroReq EXCEPT !.device = Dev_Net], RDC_OPEN),
                              [fd |-> 1, opts |-> TRUE, err |-> 0]).q
    IN  Connect_Socket(1, WithCommand(opened, RDC_CONNECT),
                       [res |-> 0, err |-> 0, sa |-> 1, reuse |-> TRUE, bind |-> TRUE,
                        listen |-> TRUE]).q

\* Request 2 as Accept_Socket makes the request of the connection accepted
\* from that peer on descriptor 2.
Receiver == News([ZeroReq EXCEPT !.device = Dev_Net], [fd |-> 2, peer |-> 1, sa |-> 1])

\* Two connected TCP endpoints; the sender's buffer holds a message.
InitPair ==
    /\ req = [r \in Reqs |-> IF r = 1 THEN Sender ELSE IF r = 2 THEN Receiver ELSE ZeroReq]
    /\ alloc = {1, 2}
    /\ os = [fd \in Fds |-> IF fd \in {1, 2} THEN [ClosedFd EXCEPT !.open = TRUE]
                            ELSE ClosedFd]
    /\ arrivals = 0
    /\ last = NoCall
    /\ dev = ZeroDev
    /\ \E m \in Messages : net = [NoNet EXCEPT !.mem[1] = m]
    /\ heap = NoScratch

\* The runtime writes the buffer of request r, once, and invokes the write
\* again while it is pending.  sendto takes the first n bytes at the cursor
\* into the connection, or would block, or fails.
SendBytes(r) ==
    /\ Invocable(r, RDC_WRITE)
    /\ Pending(r) \/ req[r].command # RDC_WRITE
    /\ LET q == IF Pending(r) THEN req[r]
                ELSE Setup_Transfer(WithCommand(req[r], RDC_WRITE), Len(net.mem[r]))
       IN  \E o \in {[n |-> n, from |-> 0, err |-> 0] : n \in 0..Xfer_Len(q)}
                    \cup {[n |-> -1, from |-> 0, err |-> e] : e \in {NE_WOULDBLOCK, NE_OTHER}} :
            /\ Returned(r, RDC_WRITE, Transfer_Socket(r, q, o))
            /\ net' = IF o.n > 0
                      THEN [net EXCEPT !.wire = @ \o SubSeq(net.mem[r], q.data + 1, q.data + o.n)]
                      ELSE net
            /\ UNCHANGED <<os, alloc, arrivals, dev, heap>>

\* The runtime reads from request r into a buffer of some capacity.
\* recvfrom moves the first n bytes of the connection into the buffer, or
\* would block when the connection holds none; on DR_DONE the runtime
\* collects the `actual` bytes the request reports.
RecvBytes(r) ==
    /\ Invocable(r, RDC_READ)
    /\ \E cap \in 1..MaxLen :
        /\ Pending(r) => cap = req[r].length
        /\ LET q == IF Pending(r) THEN req[r]
                    ELSE Setup_Transfer(WithCommand(req[r], RDC_READ), cap)
               avail == Min(Xfer_Len(q), Len(net.wire))
           IN  \E o \in IF net.wire = <<>>
                        THEN {[n |-> -1, from |-> 0, err |-> NE_WOULDBLOCK]}
                        ELSE {[n |-> n, from |-> 0, err |-> 0] : n \in 1..avail} :
                LET out == Transfer_Socket(r, q, o)
                    buffer == IF o.n > 0 THEN SubSeq(net.wire, 1, o.n) ELSE net.mem[r]
                IN  /\ Returned(r, RDC_READ, out)
                    /\ net' = [wire |-> IF o.n > 0
                                        THEN SubSeq(net.wire, o.n + 1, Len(net.wire))
                                        ELSE net.wire,
                               mem |-> [net.mem EXCEPT ![r] = buffer],
                               got |-> IF out.ret = DR_DONE
                                       THEN net.got \o SubSeq(buffer, 1, out.q.actual)
                                       ELSE net.got]
                    /\ UNCHANGED <<os, alloc, arrivals, dev, heap>>

NextTrip ==
    \/ SendBytes(1)
    \/ RecvBytes(2)

SpecTrip == InitPair /\ [][NextTrip]_vars

\* ------------------------------------------------------------------ claims

TCP(r) == RST_UDP \notin req[r].modes

Signalled(inv, r, type) == \E i \in 1..Len(inv.evts) : inv.evts[i] = <<r, type>>

\* `actual` of the transfer before a write invocation: what a pending write
\* left, or 0 for a write the runtime starts.
ActualBefore == IF Pending(1) /\ req[1].command = RDC_WRITE THEN req[1].actual ELSE 0

\* C1 as stated: over the write invocations of one transfer that return
\* DR_PEND or DR_DONE, `actual` strictly increases from each invocation to
\* the next, DR_DONE comes exactly when `actual` equals the length, and
\* `actual` never exceeds the length.
C1_StrictlyIncreasing ==
    [][(/\ last'.cmd = RDC_WRITE
        /\ last'.ret \in {DR_PEND, DR_DONE}
        /\ Pending(1) /\ req[1].command = RDC_WRITE)
       => /\ req'[1].actual > req[1].actual
          /\ req'[1].actual <= req'[1].length
          /\ (last'.ret = DR_DONE <=> req'[1].actual = req'[1].length)]_vars

\* C1 amended: over the write invocations of one transfer, `actual` never
\* decreases and increases strictly exactly when sendto accepted at least
\* one byte (a would-block DR_PEND leaves it as it was); `actual` never
\* exceeds the length; whenever sendto accepted the call, DR_DONE is
\* returned exactly when `actual` equals the length, and DR_DONE always
\* comes with `actual` equal to the length and exactly one "wrote" event,
\* every other result with no event.
C1_SendProgress ==
    [][(last'.cmd = RDC_WRITE /\ Called(last', "sendto"))
       => /\ req'[1].actual >= ActualBefore
          /\ (req'[1].actual > ActualBefore <=> last'.res > 0)
          /\ req'[1].actual <= req'[1].length
          /\ (last'.res >= 0 => (last'.ret = DR_DONE <=> req'[1].actual = req'[1].length))
          /\ (last'.ret = DR_DONE => req'[1].actual = req'[1].length)
          /\ last'.evts = IF last'.ret = DR_DONE THEN <<<<1, EVT_WROTE>>>> ELSE <<>>]_vars

\* A write longer than the cap has completed: it took several invocations.
C1_Witness ==
    /\ last.cmd = RDC_WRITE /\ last.ret = DR_DONE
    /\ req[1].length > MAX_TRANSFER
    /\ req[1].actual = req[1].length
    /\ last.evts = <<<<1, EVT_WROTE>>>>

\* C2: in every reachable state of every request, 0 <= actual <= length.
C2_ActualInRange ==
    \A r \in alloc : 0 <= req[r].actual /\ req[r].actual <= req[r].length

\* A receive moved fewer bytes than the buffer holds.
C2_Witness ==
    /\ last.cmd = RDC_READ /\ last.ret = DR_DONE
    /\ 0 < req[1].actual /\ req[1].actual < req[1].length

\* C3: an accept that yields a connection returns DR_PEND, leaves the
\* listener's state flags as they were and its command RDC_CREATE, keeps
\* the request pending, and leaves its socket listening, so that the next
\* accept can yield a further connection.
C3_AcceptKeepsListening ==
    [][(last'.cmd = RDC_CREATE /\ alloc' # alloc)
       => /\ last'.ret = DR_PEND
          /\ req'[1].state = req[1].state
          /\ req'[1].command = RDC_CREATE
          /\ RRF_PENDING \in req'[1].flags
          /\ req'[1].socket = req[1].socket
          /\ os'[req'[1].socket].open /\ os'[req'[1].socket].listen]_vars

\* The listener has just accepted its second connection.
C3_Witness ==
    /\ last.cmd = RDC_CREATE /\ last.evts = <<<<1, EVT_ACCEPT>>>>
    /\ Cardinality(alloc) = 3
    /\ {RSM_OPEN, RSM_BIND, RSM_LISTEN} \subseteq req[1].state

\* The requests of a queue are in the order in which their peers arrived.
C4_ArrivalOrder ==
    \A i, j \in 1..Len(req[1].sock) :
        i < j => req[req[1].sock[i]].remote < req[req[1].sock[j]].remote

\* C4: every accept that yields a connection appends exactly the new
\* request, carrying the oldest peer of the backlog, at the tail of the
\* listener's queue; no other handler invocation changes the queue; so the
\* queue holds the accepted requests, one each, in arrival order.
C4_AcceptQueueFifo ==
    /\ []C4_ArrivalOrder
    /\ [][last'.cmd # "none"
          => IF alloc' # alloc
             THEN /\ req'[1].sock = Append(req[1].sock, NewReq)
                  /\ req'[NewReq].remote = Head(os[req[1].socket].backlog)
             ELSE req'[1].sock = req[1].sock]_vars

\* Two accepted requests wait in the queue.
C4_Witness ==
    /\ last.cmd = RDC_CREATE
    /\ Len(req[1].sock) = 2
    /\ req[req[1].sock[1]].remote = 1 /\ req[req[1].sock[2]].remote = 2

\* C5: a receive on a TCP request that gets a zero-length result finds the
\* request CONNECTED, clears CONNECTED, keeps OPEN, returns DR_DONE and
\* signals exactly one "close" event; and every invocation that signals
\* "close" on a TCP request clears CONNECTED, so that none signals it again
\* before the request is connected again.
C5_PeerClosedOnce ==
    [][/\ (/\ last'.cmd = RDC_READ /\ TCP(1)
           /\ Called(last', "recvfrom") /\ last'.res = 0)
          => /\ RSM_CONNECT \in req[1].state
             /\ RSM_CONNECT \notin req'[1].state
             /\ (RSM_OPEN \in req[1].state => RSM_OPEN \in req'[1].state)
             /\ last'.ret = DR_DONE
             /\ last'.evts = <<<<1, EVT_CLOSE>>>>
       /\ (TCP(1) /\ Signalled(last', 1, EVT_CLOSE))
          => /\ RSM_CONNECT \in req[1].state
             /\ RSM_CONNECT \notin req'[1].state
             /\ Len(last'.evts) = 1]_vars

\* The peer of an open, connected TCP request has shut down.
C5_Witness ==
    /\ last.cmd = RDC_READ /\ TCP(1) /\ last.res = 0
    /\ last.evts = <<<<1, EVT_CLOSE>>>>
    /\ req[1].length > 0
    /\ RSM_OPEN \in req[1].state /\ RSM_CONNECT \notin req[1].state

\* C6 as stated: every close returns DR_DONE.
C6_CloseAlwaysDone == last.cmd = RDC_CLOSE => last.ret = DR_DONE

\* C6 amended: a close of a request that is not OPEN returns DR_DONE, issues
\* no system call and changes nothing but the error slot (cleared); a close
\* that follows a close is such a close; a close of an OPEN request issues
\* exactly one OS close and returns DR_DONE exactly when that call succeeds.
C6_CloseIdempotent ==
    [][last'.cmd = RDC_CLOSE
       => /\ RSM_OPEN \notin req[1].state
             => /\ last'.ret = DR_DONE
                /\ last'.sys = <<>>
                /\ os' = os
                /\ req'[1] = [req[1] EXCEPT !.error = 0, !.command = RDC_CLOSE,
                                            !.flags = @ \ {RRF_PENDING}]
          /\ last.cmd = RDC_CLOSE => RSM_OPEN \notin req[1].state
          /\ RSM_OPEN \in req[1].state
             => /\ last'.sys = <<"close">>
                /\ (last'.ret = DR_DONE <=> last'.res = 0)
                /\ (last'.ret = DR_ERROR <=> last'.res # 0)]_vars

\* A close of a request whose descriptor an earlier close released.
C6_Witness ==
    /\ last.cmd = RDC_CLOSE /\ last.ret = DR_DONE /\ last.sys = <<>>
    /\ req[1].socket \in Fds /\ ~os[req[1].socket].open
    /\ req[1].state = {}

\* C7: whenever Open_Socket returns DR_ERROR the error is recorded and
\* nothing remains allocated: the descriptor table is as before, the handle
\* slot is as before and the request is not OPEN.
C7_OpenErrorLeavesNothing ==
    [][(last'.cmd = RDC_OPEN /\ last'.ret = DR_ERROR)
       => /\ req'[1].error # 0
          /\ os' = os
          /\ req'[1].socket = req[1].socket
          /\ RSM_OPEN \notin req'[1].state]_vars

\* The state flags of request r are consistent.
FlagsOk(r) ==
    /\ RSM_CONNECT \in req[r].state => RSM_OPEN \in req[r].state
    /\ RSM_LISTEN \in req[r].state => RSM_BIND \in req[r].state
    /\ RSM_BIND \in req[r].state => RSM_OPEN \in req[r].state

\* C8 as stated: the flags of every request are consistent in every
\* reachable state.
C8_FlagsAlwaysOk == \A r \in alloc : FlagsOk(r)

\* C8 amended: the flags are consistent after construction, and every
\* handler invocation keeps them consistent, provided connect (and with it
\* listen) is invoked only on a request that is OPEN.
C8_FlagsKeptWhenOpen ==
    /\ \A r \in alloc : FlagsOk(r)
    /\ [][(/\ \A r \in alloc : FlagsOk(r)
           /\ last'.cmd = RDC_CONNECT => RSM_OPEN \in req[1].state)
          => \A r \in alloc' : FlagsOk(r)']_vars

\* A connect on an open request has set CONNECTED.
C8_Witness ==
    /\ last.cmd = RDC_CONNECT /\ last.ret = DR_DONE
    /\ {RSM_OPEN, RSM_CONNECT} \subseteq req[1].state

\* C9: after a TCP connect returned DR_ERROR, the next connect or transfer
\* on the request does not succeed and does not set CONNECTED.
C9_ErrorIsTerminal ==
    [][(/\ last.cmd = RDC_CONNECT /\ last.ret = DR_ERROR
        /\ TCP(1) /\ RST_LISTEN \notin req[1].modes
        /\ last'.cmd \in {RDC_CONNECT, RDC_READ, RDC_WRITE})
       => /\ last'.ret # DR_DONE
          /\ RSM_CONNECT \notin req'[1].state]_vars

\* C10: a connect whose connect() reports would-block, in-progress or
\* already-in-progress sets CONNECT_ATTEMPTED and returns DR_PEND; a send, a
\* receive or an accept whose call would block returns DR_PEND; none of them
\* writes the error slot, signals an event or sets CONNECTED.
C10_TransientIsPend ==
    [][(\/ /\ last'.cmd = RDC_CONNECT /\ Called(last', "connect")
           /\ last'.res # 0
           /\ last'.err \in {NE_WOULDBLOCK, NE_INPROGRESS, NE_ALREADY}
        \/ /\ last'.cmd \in {RDC_READ, RDC_WRITE, RDC_CREATE}
           /\ last'.sys # <<>>
           /\ last'.res < 0 /\ last'.err = NE_WOULDBLOCK)
       => /\ last'.ret = DR_PEND
          /\ (last'.cmd = RDC_CONNECT => RSM_ATTEMPT \in req'[1].state)
          /\ req'[1].error = req[1].error
          /\ last'.evts = <<>>
          /\ (RSM_CONNECT \in req'[1].state => RSM_CONNECT \in req[1].state)]_vars

\* A connection attempt is in progress although the request holds an error.
C10_Witness ==
    /\ last.cmd = RDC_CONNECT /\ last.err = NE_ALREADY /\ last.ret = DR_PEND
    /\ RSM_ATTEMPT \in req[1].state
    /\ req[1].error # 0

\* C11: a TCP request that connects to an address with no listener never
\* becomes CONNECTED, and every connect that returned DR_PEND is followed,
\* the runtime invoking connect again and the OS resolving the attempt, by
\* a connect that returns DR_ERROR with the OS error recorded and
\* CONNECT_ATTEMPTED cleared.
C11_RefusedEventually ==
    /\ [](RSM_CONNECT \notin req[1].state)
    /\ (last.cmd = RDC_CONNECT /\ last.ret = DR_PEND /\ RSM_ATTEMPT \in req[1].state)
       ~> (/\ last.cmd = RDC_CONNECT /\ last.ret = DR_ERROR
           /\ req[1].error = NE_OTHER
           /\ RSM_ATTEMPT \notin req[1].state)

\* The attempt on an open socket has been refused.
C11_Witness ==
    /\ last.cmd = RDC_CONNECT /\ last.ret = DR_ERROR /\ last.sys = <<"connect">>
    /\ RSM_OPEN \in req[1].state /\ IsOpenFd(req[1].socket)
    /\ req[1].error = NE_OTHER
    /\ RSM_ATTEMPT \notin req[1].state /\ RSM_CONNECT \notin req[1].state

\* C12: what the receiver has collected, followed by what is still in the
\* connection, is exactly the part of the sender's buffer that the sends
\* have moved so far; so once the sends have returned DR_DONE and the
\* receives have drained the connection, the bytes collected are the
\* original buffer, whatever its size.
C12_RoundTrip ==
    LET sent == IF req[1].command = RDC_WRITE THEN req[1].actual ELSE 0 IN
    /\ net.got \o net.wire = SubSeq(net.mem[1], 1, sent)
    /\ (/\ last.req = 1 /\ last.ret = DR_DONE) => req[1].actual = Len(net.mem[1])
    /\ (/\ req[1].command = RDC_WRITE /\ req[1].actual = req[1].length
        /\ ~Pending(1) /\ net.wire = <<>>)
       => net.got = net.mem[1]

\* A buffer longer than the cap, with differing bytes, has made the trip.
C12_Witness ==
    /\ req[1].command = RDC_WRITE /\ ~Pending(1) /\ net.wire = <<>>
    /\ Len(net.mem[1]) > MAX_TRANSFER
    /\ net.mem[1][1] # net.mem[1][2]
    /\ net.got = net.mem[1]
    /\ last.req = 2 /\ last.ret = DR_DONE

\* C13: after every invocation of open, close, connect, read, write,
\* accept, modify or lookup that does not itself fail, the error slot is
\* zero, whatever an earlier operation left in it.
C13_ErrorClearedAtStart ==
    [][(/\ last'.cmd \in {RDC_OPEN, RDC_CLOSE, RDC_CONNECT, RDC_READ, RDC_WRITE,
                          RDC_CREATE, RDC_MODIFY, RDC_LOOKUP}
        /\ last'.ret # DR_ERROR)
       => req'[1].error = 0]_vars

\* C14: the slots of poll, query, delete and rename in the dispatch table
\* are empty and every other command's slot holds its handler (read and
\* write the transfer handler, create the accept handler); a command with an
\* empty slot is reported as not implemented, no handler runs (no system
\* call, no event) and nothing of the requests, the descriptors or the
\* device changes.
C14_DispatchTable ==
    /\ Len(Dev_Cmds) = Len(RDC_Order)
    /\ \A cmd \in {RDC_POLL, RDC_QUERY, RDC_DELETE, RDC_RENAME} : Handler(cmd) = "0"
    /\ Handler(RDC_INIT) = "Init_Net" /\ Handler(RDC_QUIT) = "Quit_Net"
    /\ Handler(RDC_OPEN) = "Open_Socket" /\ Handler(RDC_CLOSE) = "Close_Socket"
    /\ Handler(RDC_READ) = "Transfer_Socket" /\ Handler(RDC_WRITE) = "Transfer_Socket"
    /\ Handler(RDC_CONNECT) = "Connect_Socket" /\ Handler(RDC_MODIFY) = "Modify_Socket"
    /\ Handler(RDC_CREATE) = "Accept_Socket" /\ Handler(RDC_LOOKUP) = "Lookup_Socket"
    /\ [][last'.cmd \in {RDC_POLL, RDC_QUERY, RDC_DELETE, RDC_RENAME}
          => /\ last'.ret = NOT_IMPLEMENTED
             /\ last'.sys = <<>> /\ last'.evts = <<>>
             /\ UNCHANGED <<req, alloc, os, dev>>]_vars

\* A poll was sent to an open request.
C14_Witness ==
    /\ last.cmd = RDC_POLL /\ last.ret = NOT_IMPLEMENTED
    /\ RSM_OPEN \in req[1].state

\* C15: on the build that needs the socket library started, after init,
\* init, quit, quit the library has been cleaned up as often as Init_Net
\* started it, and the device is not initialized.
C15_InitQuitPaired ==
    (dev.windows /\ dev.calls = <<RDC_INIT, RDC_INIT, RDC_QUIT, RDC_QUIT>>)
    => /\ dev.startups = dev.cleanups
       /\ RDF_INIT \notin dev.flags

OwnResult(a, q0, cmd, q2) ==
    LET q == WithCommand(q0, cmd)
        left(out) == q2 = Pend(out.q, out.ret)
    IN  CASE cmd = RDC_OPEN ->
               \E fd \in Fds \cup {BAD_SOCKET}, op \in BOOLEAN :
                  left(Open_Socket(a, q, [fd |-> fd, opts |-> op, err |-> NE_OTHER]))
          [] cmd = RDC_CLOSE ->
               \E ok \in BOOLEAN :
                  left(Close_Socket(a, q, [close |-> ok, err |-> NE_OTHER]))
          [] cmd = RDC_CONNECT ->
               \E x \in BOOLEAN, y \in BOOLEAN, z \in BOOLEAN, sa \in {0, 1},
                  e \in {0, NE_ISCONN, NE_WOULDBLOCK, NE_INPROGRESS, NE_ALREADY, NE_OTHER} :
                  left(Connect_Socket(a, q, [res |-> IF e = 0 THEN 0 ELSE -1, reuse |-> x,
                                             bind |-> y, listen |-> z, sa |-> sa, err |-> e]))
          [] cmd = RDC_CREATE ->
               \E fd \in Fds \cup {BAD_SOCKET}, op \in BOOLEAN, e \in {NE_WOULDBLOCK, NE_OTHER},
                  n \in Reqs :
                  left(Accept_Socket(a, q, [fd |-> fd, peer |-> 0, opts |-> op, sa |-> 0,
                                            err |-> e], n))
          [] cmd \in {RDC_READ, RDC_WRITE} ->
               \E q1 \in {q0} \cup {Setup_Transfer(q, len) : len \in 0..MaxLen},
                  n \in -1..MAX_TRANSFER, f \in Peers \cup {0},
                  e \in {0, NE_WOULDBLOCK, NE_OTHER} :
                  left(Transfer_Socket(a, q1, [n |-> n, from |-> f, err |-> e]))
          [] OTHER -> q2 = q0

C18_TcpConnectSucceeds ==
    [][(/\ last'.req = 1 /\ last'.cmd = RDC_CONNECT
        /\ TCP(1) /\ RST_LISTEN \notin req[1].modes
        /\ Called(last', "connect")
        /\ (last'.res = 0 \/ last'.err = NE_ISCONN))
       => /\ RSM_CONNECT \in req'[1].state
          /\ RSM_ATTEMPT \notin req'[1].state
          /\ Called(last', "getsockname")
          /\ req'[1].local = 1
          /\ last'.evts = <<<<1, EVT_CONNECT>>>>
          /\ last'.ret = DR_DONE
          /\ ~Pending(1)']_vars

\* A pending TCP connect was invoked again and found the socket connected.
C18_Witness ==
    /\ last.req = 1 /\ last.cmd = RDC_CONNECT
    /\ TCP(1) /\ RST_LISTEN \notin req[1].modes
    /\ last.res = -1 /\ last.err = NE_ISCONN /\ last.ret = DR_DONE
    /\ RSM_CONNECT \in req[1].state /\ RSM_OPEN \in req[1].state

\* A connect invoked on request 1 as a UDP request that is not a listener.
UdpConnect ==
    /\ last'.req = 1 /\ last'.cmd = RDC_CONNECT
    /\ RST_UDP \in req[1].modes /\ RST_LISTEN \notin req[1].modes

\* The send that follows a UDP connect, which the OS accepts whole: DR_DONE
\* with `actual` equal to the buffer's length.
UdpSendWhole ==
    (/\ last.req = 1 /\ last.cmd = RDC_CONNECT /\ last.ret = DR_DONE
     /\ RST_UDP \in req[1].modes /\ RST_LISTEN \notin req[1].modes
     /\ last'.req = 1 /\ last'.cmd = RDC_WRITE
     /\ Called(last', "sendto") /\ last'.res = req'[1].length)
    => /\ last'.ret = DR_DONE
       /\ req'[1].actual = req'[1].length

\* C19 as stated: every connect on a UDP request that is not a listener
\* calls no connect(), leaves the request CONNECTED and not
\* CONNECT_ATTEMPTED, queries the local endpoint, signals a connect event
\* and returns DR_DONE; the send that follows and is accepted whole returns
\* DR_DONE with `actual` equal to the length.
C19_UdpConnectAlwaysSignals ==
    [][/\ UdpConnect
          => /\ ~Called(last', "connect")
             /\ RSM_CONNECT \in req'[1].state
             /\ RSM_ATTEMPT \notin req'[1].state
             /\ Called(last', "getsockname")
             /\ last'.evts = <<<<1, EVT_CONNECT>>>>
             /\ last'.ret = DR_DONE
       /\ UdpSendWhole]_vars

\* C19 amended: every connect on a UDP request that is not a listener calls
\* no connect(), leaves the request CONNECTED and returns DR_DONE, never
\* DR_PEND or DR_ERROR.  On a request that is not CONNECTED yet it clears
\* CONNECT_ATTEMPTED, queries the local endpoint (the socket's, when the
\* request is OPEN) and signals one connect event; on a request that is
\* CONNECTED already it makes no system call, signals nothing and leaves
\* the request as it is.  The send that follows and is accepted whole
\* returns DR_DONE with `actual` equal to the length.
C19_UdpConnect ==
    [][/\ UdpConnect
          => /\ ~Called(last', "connect")
             /\ RSM_CONNECT \in req'[1].state
             /\ last'.ret = DR_DONE
             /\ ~Pending(1)'
             /\ RSM_CONNECT \notin req[1].state
                => /\ RSM_ATTEMPT \notin req'[1].state
                   /\ last'.sys = <<"getsockname">>
                   /\ (RSM_OPEN \in req[1].state => req'[1].local = 1)
                   /\ last'.evts = <<<<1, EVT_CONNECT>>>>
             /\ RSM_CONNECT \in req[1].state
                => /\ last'.sys = <<>>
                   /\ last'.evts = <<>>
                   /\ req'[1] = [req[1] EXCEPT !.command = RDC_CONNECT,
                                               !.flags = @ \ {RRF_PENDING}]
       /\ UdpSendWhole]_vars

\* An open UDP request was connected, and the send that followed was
\* accepted whole.
C19_Witness ==
    /\ last.req = 1 /\ last.cmd = RDC_WRITE /\ last.ret = DR_DONE
    /\ RST_UDP \in req[1].modes /\ RST_LISTEN \notin req[1].modes
    /\ {RSM_OPEN, RSM_CONNECT} \subseteq req[1].state
    /\ req[1].local = 1
    /\ last.res = MAX_TRANSFER /\ req[1].actual = MAX_TRANSFER
    /\ req[1].length = MAX_TRANSFER

\* C20: a read or write invoked on a request that is neither CONNECTED nor
\* UDP returns DR_ERROR with the error -18, calls neither sendto nor
\* recvfrom, signals no event and leaves `actual`, the buffer cursor and the
\* state flags, the send and receive flags among them, as they were when
\* the handler was entered.
C20_MisuseTransfer ==
    [][(/\ last'.req = 1 /\ last'.cmd \in {RDC_READ, RDC_WRITE}
        /\ RSM_CONNECT \notin req[1].state /\ TCP(1))
       => /\ last'.ret = DR_ERROR
          /\ req'[1].error = ERR_MISUSE
          /\ req'[1].error \notin {NE_WOULDBLOCK, NE_INPROGRESS, NE_ALREADY, NE_ISCONN,
                                   NE_OTHER}
          /\ last'.sys = <<>>
          /\ last'.evts = <<>>
          /\ req'[1].state = req[1].state
          /\ req'[1] = [Setup_Transfer(WithCommand(req[1], last'.cmd), req'[1].length)
                            EXCEPT !.error = ERR_MISUSE]]_vars

\* A write of a buffer was invoked on an open TCP request that had not been
\* connected.
C20_Witness ==
    /\ last.req = 1 /\ last.cmd = RDC_WRITE /\ last.ret = DR_ERROR
    /\ TCP(1) /\ RSM_OPEN \in req[1].state /\ RSM_CONNECT \notin req[1].state
    /\ req[1].error = ERR_MISUSE
    /\ req[1].length = MaxLen /\ req[1].actual = 0 /\ req[1].data = 0
    /\ RSM_SEND \notin req[1].state

\* The system calls of a listen setup in which every step succeeds.
ListenCalls(udp) ==
    IF udp THEN <<"setsockopt", "bind", "getsockname">>
    ELSE <<"setsockopt", "bind", "listen", "getsockname">>

\* C21: a listen setup returns DR_PEND or DR_ERROR, never DR_DONE.  When
\* reuse-address, bind and (TCP only) listen all succeed it has set BOUND,
\* has set LISTENING for TCP and not for UDP, has queried the local
\* endpoint, has switched the command to accept (create) and returns
\* DR_PEND; when a step fails it makes no further call and returns DR_ERROR
\* with the OS code in the error slot and the command not switched.
C21_ListenSetup ==
    [][(last'.req = 1 /\ last'.cmd = RDC_CONNECT /\ RST_LISTEN \in req[1].modes)
       => LET udp == RST_UDP \in req[1].modes
              full == ListenCalls(udp)
          IN  /\ last'.ret \in {DR_PEND, DR_ERROR}
              /\ last'.ret = DR_PEND <=> last'.sys = full
              /\ last'.ret = DR_PEND
                 => /\ req'[1].state =
                         req[1].state \cup (IF udp THEN {RSM_BIND} ELSE {RSM_BIND, RSM_LISTEN})
                    /\ udp => RSM_LISTEN \notin req'[1].state
                    /\ req'[1].local = 1
                    /\ req'[1].command = RDC_CREATE
                    /\ Pending(1)'
                    /\ req'[1].error = req[1].error
              /\ last'.ret = DR_ERROR
                 => /\ \E n \in 1..(Len(full) - 1) : last'.sys = SubSeq(full, 1, n)
                    /\ last'.err # 0 /\ req'[1].error = last'.err
                    /\ req'[1].command = RDC_CONNECT
                    /\ RSM_LISTEN \notin req'[1].state \ req[1].state
                    /\ ~Pending(1)']_vars

\* A UDP listener was set up: BOUND, not LISTENING, waiting for accept.
C21_Witness ==
    /\ last.req = 1 /\ last.cmd = RDC_CONNECT /\ last.ret = DR_PEND
    /\ req[1].modes = {RST_UDP, RST_LISTEN}
    /\ {RSM_OPEN, RSM_BIND} \subseteq req[1].state /\ RSM_LISTEN \notin req[1].state
    /\ req[1].command = RDC_CREATE /\ req[1].local = 1

C23_CloseClearsFlags ==
    [][(last'.req = 1 /\ last'.cmd = RDC_CLOSE /\ RSM_OPEN \in req[1].state)
       => /\ req'[1].state = {}
          /\ last'.ret \in {DR_DONE, DR_ERROR}
          /\ last'.ret = DR_DONE <=> last'.res = 0
          /\ req'[1].error = IF last'.ret = DR_ERROR THEN last'.err ELSE 0
          /\ last'.ret = DR_ERROR => last'.err # 0
          /\ alloc' = alloc
          /\ req'[1].remote = req[1].remote /\ req'[1].local = req[1].local
          /\ req'[1].length = req[1].length /\ req'[1].actual = req[1].actual
          /\ req'[1].data = req[1].data
          /\ req'[1].sock = req[1].sock
          /\ req'[1] = [req[1] EXCEPT !.state = {}, !.error = req'[1].error,
                                      !.command = RDC_CLOSE,
                                      !.flags = @ \ {RRF_PENDING}]]_vars

\* The OS close of a listener that holds an accepted request failed.
C23_Witness ==
    /\ last.req = 1 /\ last.cmd = RDC_CLOSE /\ last.ret = DR_ERROR
    /\ last.sys = <<"close">>
    /\ req[1].state = {} /\ req[1].error = NE_OTHER
    /\ req[1].sock # <<>> /\ req[1].local = 1
    /\ IsOpenFd(req[1].socket)

C26_ModifyErrorIsOsCode ==
    [][(/\ last'.req = 1 /\ last'.cmd = RDC_MODIFY
        /\ Called(last', "setsockopt") /\ last'.res < 0)
       => /\ last'.ret = DR_ERROR
          /\ req'[1].error = last'.errno]_vars

\* C27: a multicast or TTL operation on a request that is not UDP returns
\* DR_ERROR with the error -18 and calls no setsockopt; on a UDP request
\* setsockopt is called once, and DR_DONE is returned exactly when it
\* succeeds.
C27_ModifyNeedsUdp ==
    [][(/\ last'.req = 1 /\ last'.cmd = RDC_MODIFY
        /\ last'.op \in {SET_UDP_MULTICAST, SET_UDP_TTL})
       => /\ TCP(1)
             => /\ last'.ret = DR_ERROR
                /\ req'[1].error = ERR_MISUSE
                /\ last'.sys = <<>>
          /\ ~TCP(1)
             => /\ last'.sys = <<"setsockopt">>
                /\ last'.ret = DR_DONE <=> last'.res = 0
                /\ last'.ret = DR_DONE => req'[1].error = req[1].error
                /\ last'.ret \in {DR_DONE, DR_ERROR}
          /\ last'.evts = <<>>
          /\ req'[1].state = req[1].state]_vars

\* The TTL of an open TCP request was to be set.
C27_Witness ==
    /\ last.req = 1 /\ last.cmd = RDC_MODIFY /\ last.op = SET_UDP_TTL
    /\ TCP(1) /\ RSM_OPEN \in req[1].state /\ IsOpenFd(req[1].socket)
    /\ last.ret = DR_ERROR /\ req[1].error = ERR_MISUSE

\* C28: the one sendto or recvfrom of a read or write invocation moves at
\* most min(length - actual, MAX_TRANSFER) bytes, `actual` being what the
\* transfer had moved before the invocation; so `actual` changes by at most
\* MAX_TRANSFER in one invocation, and a write of more than MAX_TRANSFER
\* bytes does not return DR_DONE from its first invocation.
C28_TransferCap ==
    [][\A r \in {1, 2} :
         (/\ last'.req = r /\ last'.cmd \in {RDC_READ, RDC_WRITE}
          /\ Called(last', "sendto") \/ Called(last', "recvfrom"))
         => LET before == IF Pending(r) THEN req[r].actual ELSE 0 IN
            /\ Len(last'.sys) = 1
            /\ last'.res <= Min(req'[r].length - before, MAX_TRANSFER)
            /\ req'[r].actual - before <= MAX_TRANSFER
            /\ req'[r].actual - before >= 0
            /\ req'[r].actual - before = (IF last'.res > 0 THEN last'.res ELSE 0)
            /\ (/\ last'.cmd = RDC_WRITE /\ last'.ret = DR_DONE
                /\ req'[r].length > MAX_TRANSFER)
               => Pending(r) /\ req[r].command = RDC_WRITE /\ before > 0]_vars

\* A buffer longer than the cap has been written and is in the connection
\* or with the reader, whole.
C28_Witness ==
    /\ last.req = 1 /\ last.cmd = RDC_WRITE /\ last.ret = DR_DONE
    /\ req[1].length > MAX_TRANSFER /\ req[1].actual = req[1].length
    /\ Len(net.got) + Len(net.wire) = req[1].length
    /\ last.res <= MAX_TRANSFER

\* C29: a read on a UDP request whose recvfrom returns a positive result
\* leaves the sender recvfrom reported in the remote endpoint; every other
\* read - on a TCP request, with a zero or negative result, or refused
\* before recvfrom - leaves the remote endpoint as it was, as do open,
\* connect and close.  So between lookups the remote endpoint of a UDP
\* request is the sender of the datagram received last.
C29_UdpLatchesSender ==
    [][last'.req = 1
       => /\ last'.cmd = RDC_READ
             => IF RST_UDP \in req[1].modes /\ Called(last', "recvfrom") /\ last'.res > 0
                THEN last'.from \in Peers /\ req'[1].remote = last'.from
                ELSE req'[1].remote = req[1].remote
          /\ last'.cmd \in {RDC_OPEN, RDC_CONNECT, RDC_CLOSE}
             => req'[1].remote = req[1].remote]_vars

\* A UDP request received a datagram from the second peer.
C29_Witness ==
    /\ last.req = 1 /\ last.cmd = RDC_READ /\ last.ret = DR_DONE
    /\ RST_UDP \in req[1].modes
    /\ last.res > 0 /\ last.from = 2 /\ req[1].remote = 2
    /\ req[1].actual = last.res

\* The requests that hold descriptor fd in their handle slot and are OPEN,
\* so that closing them releases it.
Owners(R, q, fd) == {r \in R : q[r].socket = fd /\ RSM_OPEN \in q[r].state}

\* C30, at the moment a handle is obtained: every descriptor that socket()
\* or accept() has handed out is, when the handler returns, in the handle
\* slot of exactly one OPEN request - also when the socket-option step
\* that follows fails.
C30_HandleOwned ==
    [][(last'.req = 1 /\ last'.cmd \in {RDC_OPEN, RDC_CREATE})
       => \A fd \in Fds :
            (~os[fd].open /\ os'[fd].open)
            => Cardinality(Owners(alloc', req', fd)) = 1]_vars

\* C31: a handler that returns ERROR signals nothing and no invocation
\* signals more than one event; what is signalled is a connect event on a
\* DONE of connect, a wrote event on a DONE of write, a read or a close event
\* on a DONE of read, a lookup event on a DONE of lookup, or an accept event
\* on the PEND of an accept that took a connection; a PEND of connect or of
\* a transfer and the PEND of an accept that would block signal nothing.
C31_SignalsOnSuccessOnly ==
    [][last'.req \in Reqs
       => LET c == last'.cmd
              ret == last'.ret
              e == last'.evts
          IN  /\ Len(e) <= 1
              /\ ret = DR_ERROR => e = <<>>
              /\ e # <<>>
                 => /\ e[1][1] = last'.req
                    /\ \/ c = RDC_CONNECT /\ ret = DR_DONE /\ e[1][2] = EVT_CONNECT
                       \/ c = RDC_WRITE /\ ret = DR_DONE /\ e[1][2] = EVT_WROTE
                       \/ c = RDC_READ /\ ret = DR_DONE /\ e[1][2] \in {EVT_READ, EVT_CLOSE}
                       \/ c = RDC_LOOKUP /\ ret = DR_DONE /\ e[1][2] = EVT_LOOKUP
                       \/ /\ c = RDC_CREATE /\ ret = DR_PEND /\ e[1][2] = EVT_ACCEPT
                          /\ last'.res \in Fds
              /\ (ret = DR_PEND /\ c \in {RDC_CONNECT, RDC_READ, RDC_WRITE}) => e = <<>>
              /\ (ret = DR_PEND /\ c = RDC_CREATE /\ last'.res = BAD_SOCKET) => e = <<>>]_vars

\* A connect to a peer failed for good: the handler returned ERROR with the
\* OS error in the slot and signalled nothing.
C31_Witness ==
    /\ last.req = 1 /\ last.cmd = RDC_CONNECT /\ last.ret = DR_ERROR
    /\ Called(last, "connect") /\ last.err = NE_OTHER
    /\ req[1].error = NE_OTHER
    /\ last.evts = <<>>

====
